---------------------------- MODULE Spec2Model ----------------------------
(***************************************************************************)
(* A model of the Untappd APIv4 client of client.go: NewClient,            *)
(* Error.Error, Client.request, checkResponse and timeUnitToDuration.      *)
(*                                                                         *)
(* Representation choices.                                                 *)
(*  - A float64 magnitude is a record [neg, ip, fr, bias]: sign, integer   *)
(*    part, fractional part in units of 10^-7, and the sign of the         *)
(*    difference between the float64 and that decimal (it decides how      *)
(*    "%f" rounds a decimal tie).                                          *)
(*  - A time.Duration (int64 nanoseconds) is a record [neg, m, s, ns] of   *)
(*    whole minutes, seconds below a minute and nanoseconds below a        *)
(*    second, because 2^63 nanoseconds exceeds the integers of TLC.        *)
(*  - A response body is a sequence of JSON tokens.                        *)
(*  - A string that is URL-escaped is a sequence of atoms: a run of        *)
(*    unreserved characters, or one reserved character.                    *)
(***************************************************************************)
EXTENDS Integers, Sequences, FiniteSets, TLC

VARIABLES
    client,         \* the *Client NewClient returned, NoClient before
    newCall,        \* the NewClient call: its arguments and its error
    transportCalls, \* number of c.client.Do calls made so far
    call,           \* the Client.request call in progress
    calls,          \* the Client.request calls of concurrent callers, by caller
    fnPc,           \* position of the pure-function harness
    fnArgs,         \* arguments of the function under evaluation
    fnRet           \* its result

vars == <<client, newCall, transportCalls, call, calls, fnPc, fnArgs, fnRet>>

Nil == "nil"

\* the nil error
NoError == [kind |-> "nil"]

(***************************************************************************)
(* time.Duration and fmt.Sprintf("%f") / time.ParseDuration                 *)
(***************************************************************************)

Million == 1000 * 1000

\* time.Duration(0)
ZeroDuration == [neg |-> FALSE, m |-> 0, s |-> 0, ns |-> 0]

\* math.MaxInt64 nanoseconds = 153722867 min 16 s 854775807 ns
MaxDuration == [neg |-> FALSE, m |-> 153722867, s |-> 16, ns |-> 854775807]

\* a < b on the magnitudes of two durations
DurLess(a, b) ==
    \/ a.m < b.m
    \/ a.m = b.m /\ a.s < b.s
    \/ a.m = b.m /\ a.s = b.s /\ a.ns < b.ns

\* Known measure strings mapped to Go parse-able equivalents
timeUnits == [measure \in {"milliseconds", "seconds", "minutes"} |->
                CASE measure = "milliseconds" -> "ms"
                  [] measure = "seconds"      -> "s"
                  [] measure = "minutes"      -> "m"]

\* fmt.Sprintf("%f", x): six digits after the point, the exact binary value
\* rounded to nearest, ties to even.  The result is the literal
\* [neg, ip, fr6]: sign, integer digits, six fraction digits.
FormatF(x) ==
    LET low  == x.fr % 10
        keep == x.fr \div 10
        up   == \/ low > 5
                \/ low = 5 /\ x.bias > 0
                \/ low = 5 /\ x.bias = 0 /\ keep % 2 = 1
        r    == IF up THEN keep + 1 ELSE keep
    IN  IF r = Million
        THEN [neg |-> x.neg, ip |-> x.ip + 1, fr6 |-> 0]
        ELSE [neg |-> x.neg, ip |-> x.ip, fr6 |-> r]

\* ip units plus fr6 millionths of a unit, as a duration magnitude:
\* v = ip * unit, then v += fr6 * (unit / 10^6), in int64 nanoseconds.
UnitProduct(ip, fr6, unit) ==
    CASE unit = "ms" ->
            [neg |-> FALSE,
             m  |-> ip \div 60000,
             s  |-> (ip % 60000) \div 1000,
             ns |-> (ip % 1000) * Million + fr6]
      [] unit = "s" ->
            [neg |-> FALSE,
             m  |-> ip \div 60,
             s  |-> ip % 60,
             ns |-> fr6 * 1000]
      [] unit = "m" ->
            [neg |-> FALSE,
             m  |-> ip,
             s  |-> (fr6 * 60) \div Million,
             ns |-> ((fr6 * 60) % Million) * 1000]

\* time.ParseDuration of the literal lit followed by the unit suffix:
\* [ok, d].  It fails when the value exceeds the int64 range.
ParseDuration(lit, unit) ==
    LET v == UnitProduct(lit.ip, lit.fr6, unit)
    IN  IF DurLess(MaxDuration, v) /\ ~(lit.neg /\ v = [MaxDuration EXCEPT !.ns = @ + 1])
        THEN [ok |-> FALSE, d |-> ZeroDuration]
        ELSE [ok |-> TRUE,
              d  |-> IF v = ZeroDuration THEN ZeroDuration
                     ELSE [v EXCEPT !.neg = lit.neg]]

\* timeUnitToDuration with the unknown measure treated as seconds
timeUnitToDuration_anyUnit(timeFloat, measure) ==
    LET unit == IF measure \in DOMAIN timeUnits THEN timeUnits[measure] ELSE "s"
        p    == ParseDuration(FormatF(timeFloat), unit)
    IN  IF p.ok THEN p.d ELSE ZeroDuration

\* timeUnitToDuration with the minute suffix read as a millisecond
timeUnitToDuration_minAsMs(timeFloat, measure) ==
    IF measure \notin DOMAIN timeUnits
    THEN ZeroDuration
    ELSE LET u == timeUnits[measure]
             p == ParseDuration(FormatF(timeFloat), IF u = "m" THEN "ms" ELSE u)
         IN  IF p.ok THEN p.d ELSE ZeroDuration

\* timeUnitToDuration parses a time float64 and measure string from the
\* Untappd APIv4, and converts them into a native Go time.Duration.
timeUnitToDuration(timeFloat, measure) ==
    IF measure \notin DOMAIN timeUnits
    THEN ZeroDuration                   \* If unknown, return no duration
    ELSE LET p == ParseDuration(FormatF(timeFloat), timeUnits[measure])
         IN  IF p.ok THEN p.d
             ELSE ZeroDuration          \* If error, return no duration

(***************************************************************************)
(* Inputs of the duration specification                                    *)
(***************************************************************************)

\* largest small integer part tried next to the fixed ones
MaxWhole == 2

WholeParts == (0 .. MaxWhole) \cup {5, 10, 100, 500, 153722867, 153722868}

\* fractions in units of 10^-7: 0, 10^-7, a decimal tie, 0.05, 0.5, almost 1
FracParts == {0, 1, 5, 15, 500000, 5000000, 9999995, 9999999}

Floats ==
    [neg : BOOLEAN, ip : WholeParts, fr : FracParts, bias : {-1, 0, 1}]

Measures ==
    {"milliseconds", "seconds", "minutes", "hours", "days", "lightyears", ""}

\* a float64 literal of the tests: whole part and fraction in 10^-7
Lit(ip, fr) == [neg |-> FALSE, ip |-> ip, fr |-> fr, bias |-> 0]

(***************************************************************************)
(* Error                                                                   *)
(***************************************************************************)

\* strconv of one decimal digit
Digit(d) ==
    CASE d = 0 -> "0" [] d = 1 -> "1" [] d = 2 -> "2" [] d = 3 -> "3"
      [] d = 4 -> "4" [] d = 5 -> "5" [] d = 6 -> "6" [] d = 7 -> "7"
      [] d = 8 -> "8" [] d = 9 -> "9"

RECURSIVE Digits(_)
\* the decimal digits of a natural number
Digits(n) == IF n < 10 THEN Digit(n) ELSE Digits(n \div 10) \o Digit(n % 10)

\* the %d verb of fmt.Sprintf
FormatD(n) == IF n < 0 THEN "-" \o Digits(0 - n) ELSE Digits(n)

\* Error.Error with the plain detail preferred over the developer friendly one
Error_Error_detailFirst(e) ==
    LET details == IF e.Detail # "" THEN e.Detail ELSE e.DeveloperFriendly
    IN  FormatD(e.Code) \o " [" \o e.Type \o "]: " \o details

\* Error returns the string representation of an Error.
Error_Error(e) ==
    LET details == IF e.DeveloperFriendly # ""
                   THEN e.DeveloperFriendly
                   ELSE e.Detail
    IN  FormatD(e.Code) \o " [" \o e.Type \o "]: " \o details

(***************************************************************************)
(* encoding/json: Decoder.Decode over a body of tokens                     *)
(***************************************************************************)

LB == [t |-> "{"]

RB == [t |-> "}"]

Colon == [t |-> ":"]

Comma == [t |-> ","]

Null == [t |-> "null"]

Str(s) == [t |-> "str", s |-> s]

Num(x) == [t |-> "num", n |-> x]

ParseEOF == [st |-> "eof"]

ParseSyntax == [st |-> "syntax"]

EmptyObject == [k \in {} |-> Nil]

RECURSIVE ParseValue(_, _), ParseMembers(_, _, _)

\* The scanner reading one JSON value of body b from token i:
\* [st |-> "ok", next, val], ParseEOF when b ends inside the value,
\* ParseSyntax at the first token that cannot continue a value.
ParseValue(b, i) ==
    IF i > Len(b) THEN ParseEOF
    ELSE CASE b[i].t = "str" ->
                [st |-> "ok", next |-> i + 1, val |-> [k |-> "str", s |-> b[i].s]]
           [] b[i].t = "num" ->
                [st |-> "ok", next |-> i + 1, val |-> [k |-> "num", n |-> b[i].n]]
           [] b[i].t = "null" ->
                [st |-> "ok", next |-> i + 1, val |-> [k |-> "null"]]
           [] b[i].t = "{" ->
                IF i + 1 > Len(b) THEN ParseEOF
                ELSE IF b[i + 1].t = "}"
                THEN [st |-> "ok", next |-> i + 2,
                      val |-> [k |-> "obj", mem |-> EmptyObject]]
                ELSE ParseMembers(b, i + 1, EmptyObject)
           [] OTHER -> ParseSyntax

\* the members of an object from the key at token i on; acc holds the
\* members read so far, a repeated key keeping its last value
ParseMembers(b, i, acc) ==
    IF i > Len(b) THEN ParseEOF
    ELSE IF b[i].t # "str" THEN ParseSyntax
    ELSE IF i + 1 > Len(b) THEN ParseEOF
    ELSE IF b[i + 1].t # ":" THEN ParseSyntax
    ELSE LET r == ParseValue(b, i + 2)
         IN  IF r.st # "ok" THEN r
             ELSE LET acc2 == [key \in DOMAIN acc \cup {b[i].s} |->
                                 IF key = b[i].s THEN r.val ELSE acc[key]]
                  IN  IF r.next > Len(b) THEN ParseEOF
                      ELSE IF b[r.next].t = "}"
                      THEN [st |-> "ok", next |-> r.next + 1,
                            val |-> [k |-> "obj", mem |-> acc2]]
                      ELSE IF b[r.next].t = ","
                      THEN ParseMembers(b, r.next + 1, acc2)
                      ELSE ParseSyntax

\* member key of object value o, or null when o has none
Member(o, key) ==
    IF key \in DOMAIN o.mem THEN o.mem[key] ELSE [k |-> "null"]

\* whether JSON value v can be stored into a Go string / float64 / int
FitsString(v) == v.k \in {"null", "str"}

FitsFloat(v) == v.k \in {"null", "num"}

FitsInt(v) == v.k = "null" \/ (v.k = "num" /\ v.n.fr = 0)

\* whether v can be stored into the anonymous struct of response_time
FitsResponseTime(v) ==
    \/ v.k = "null"
    \/ /\ v.k = "obj"
       /\ FitsFloat(Member(v, "time"))
       /\ FitsString(Member(v, "measure"))

\* whether v can be stored into the anonymous struct of meta
FitsMeta(v) ==
    \/ v.k = "null"
    \/ /\ v.k = "obj"
       /\ FitsInt(Member(v, "code"))
       /\ FitsString(Member(v, "error_detail"))
       /\ FitsString(Member(v, "error_type"))
       /\ FitsString(Member(v, "developer_friendly"))
       /\ FitsResponseTime(Member(v, "response_time"))

\* whether v can be stored into apiErr
FitsAPIErr(v) ==
    \/ v.k = "null"
    \/ v.k = "obj" /\ FitsMeta(Member(v, "meta"))

\* the Go value of a string / number field, the zero value when null
StringOf(v) == IF v.k = "str" THEN v.s ELSE ""

ZeroFloat == [neg |-> FALSE, ip |-> 0, fr |-> 0, bias |-> 0]

FloatOf(v) == IF v.k = "num" THEN v.n ELSE ZeroFloat

IntOf(v) == IF v.k = "num" THEN (IF v.n.neg THEN 0 - v.n.ip ELSE v.n.ip) ELSE 0

\* member key of the object under path step p of v, null on the way
Under(v, p) == IF v.k = "obj" THEN Member(v, p) ELSE [k |-> "null"]

\* apiErr after a successful json.Unmarshal of v into its zero value
APIErrOf(v) ==
    LET meta == Under(v, "meta")
        rt   == Under(meta, "response_time")
    IN  [Meta |-> [Code              |-> IntOf(Under(meta, "code")),
                   ErrorDetail       |-> StringOf(Under(meta, "error_detail")),
                   ErrorType         |-> StringOf(Under(meta, "error_type")),
                   DeveloperFriendly |-> StringOf(Under(meta, "developer_friendly")),
                   ResponseTime      |-> [Time    |-> FloatOf(Under(rt, "time")),
                                          Measure |-> StringOf(Under(rt, "measure"))]]]

\* json.NewDecoder(body).Decode(&apiErr): [err, apiErr].  The errors are
\* io.EOF for a body with no value at all, io.ErrUnexpectedEOF for a body
\* that ends inside a value, *json.SyntaxError and *json.UnmarshalTypeError.
DecodeAPIErr(body) ==
    LET r == ParseValue(body, 1)
    IN  IF Len(body) = 0 THEN [err |-> "io.EOF"]
        ELSE IF r.st = "eof" THEN [err |-> "io.ErrUnexpectedEOF"]
        ELSE IF r.st = "syntax" THEN [err |-> "json.SyntaxError"]
        ELSE IF ~FitsAPIErr(r.val) THEN [err |-> "json.UnmarshalTypeError"]
        ELSE [err |-> Nil, apiErr |-> APIErrOf(r.val)]

(***************************************************************************)
(* checkResponse                                                           *)
(***************************************************************************)

\* jsonContentType is the content type for JSON data
jsonContentType == "application/json"

\* http.Header.Get: the first value of the header, "" when it is absent
HeaderGet(header, key) ==
    IF key \in DOMAIN header /\ Len(header[key]) > 0 THEN header[key][1] ELSE ""

\* checkResponse with the status looked at before the content type
checkResponse_statusFirst(res) ==
    LET cType == HeaderGet(res.Header, "Content-Type")
    IN  IF 200 <= res.StatusCode /\ res.StatusCode <= 299
        THEN [err |-> NoError, bodyRead |-> FALSE]
        ELSE IF cType # jsonContentType
        THEN [err |-> [kind |-> "contentType", expected |-> jsonContentType,
                       actual |-> cType,
                       msg |-> "expected " \o jsonContentType
                               \o " content type, but received " \o cType],
              bodyRead |-> FALSE]
        ELSE [err |-> NoError, bodyRead |-> FALSE]

\* checkResponse with a 300 status counted as a success
checkResponse_wideRange(res) ==
    LET cType == HeaderGet(res.Header, "Content-Type")
        dec   == DecodeAPIErr(res.Body)
    IN  IF cType # jsonContentType
        THEN [err |-> [kind |-> "contentType", expected |-> jsonContentType,
                       actual |-> cType,
                       msg |-> "expected " \o jsonContentType
                               \o " content type, but received " \o cType],
              bodyRead |-> FALSE]
        ELSE IF 200 <= res.StatusCode /\ res.StatusCode <= 300
        THEN [err |-> NoError, bodyRead |-> FALSE]
        ELSE IF dec.err # Nil
        THEN [err |-> [kind |-> dec.err], bodyRead |-> TRUE]
        ELSE [err |-> [kind |-> "Error",
                       Code |-> dec.apiErr.Meta.Code,
                       Detail |-> dec.apiErr.Meta.ErrorDetail,
                       Type |-> dec.apiErr.Meta.ErrorType,
                       DeveloperFriendly |-> dec.apiErr.Meta.DeveloperFriendly,
                       Duration |-> timeUnitToDuration(
                                        dec.apiErr.Meta.ResponseTime.Time,
                                        dec.apiErr.Meta.ResponseTime.Measure)],
              bodyRead |-> TRUE]

\* checkResponse checks for a non-200 HTTP status code, and returns any
\* errors encountered: [err, bodyRead], bodyRead telling whether the body
\* was read.
checkResponse(res) ==
    LET cType == HeaderGet(res.Header, "Content-Type")
        dec   == DecodeAPIErr(res.Body)
    IN  \* Ensure correct content type
        IF cType # jsonContentType
        THEN [err |-> [kind |-> "contentType", expected |-> jsonContentType,
                       actual |-> cType,
                       msg |-> "expected " \o jsonContentType
                               \o " content type, but received " \o cType],
              bodyRead |-> FALSE]
        \* Check for 200-range status code
        ELSE IF 200 <= res.StatusCode /\ res.StatusCode <= 299
        THEN [err |-> NoError, bodyRead |-> FALSE]
        \* Unmarshal error response
        ELSE IF dec.err # Nil
        THEN [err |-> [kind |-> dec.err], bodyRead |-> TRUE]
        \* Assemble Error struct from API response
        ELSE [err |-> [kind |-> "Error",
                       Code |-> dec.apiErr.Meta.Code,
                       Detail |-> dec.apiErr.Meta.ErrorDetail,
                       Type |-> dec.apiErr.Meta.ErrorType,
                       DeveloperFriendly |-> dec.apiErr.Meta.DeveloperFriendly,
                       Duration |-> timeUnitToDuration(
                                        dec.apiErr.Meta.ResponseTime.Time,
                                        dec.apiErr.Meta.ResponseTime.Measure)],
              bodyRead |-> TRUE]

(***************************************************************************)
(* Inputs of the pure-function specification                               *)
(***************************************************************************)

\* the error envelope of the APIv4 as a body
Envelope(code, detail, type, dev, time, measure) ==
    << LB, Str("meta"), Colon, LB,
       Str("code"), Colon, code, Comma,
       Str("error_detail"), Colon, Str(detail), Comma,
       Str("error_type"), Colon, Str(type), Comma,
       Str("developer_friendly"), Colon, Str(dev), Comma,
       Str("response_time"), Colon, LB,
           Str("time"), Colon, Num(time), Comma,
           Str("measure"), Colon, Str(measure), RB,
       RB, RB >>

AuthDetail == "The user has not authorized this application or the token is invalid."

\* apiErrJSON of the tests
apiErrJSON ==
    Envelope(Num(Lit(500, 0)), AuthDetail, "invalid_auth", AuthDetail,
             Lit(0, 0), "seconds")

\* invalidUserErrJSON of the tests: no developer_friendly member
invalidUserErrJSON ==
    << LB, Str("meta"), Colon, LB,
       Str("code"), Colon, Num(Lit(404, 0)), Comma,
       Str("error_detail"), Colon, Str("Invalid user."), Comma,
       Str("error_type"), Colon, Str("invalid_user"), Comma,
       Str("response_time"), Colon, LB,
           Str("time"), Colon, Num(Lit(0, 0)), Comma,
           Str("measure"), Colon, Str("seconds"), RB,
       RB, RB >>

\* the field values the well-formed envelopes are built from
EnvelopeParams ==
    [code : {404, 500},
     detail : {"", "Invalid user."},
     type : {"invalid_auth"},
     dev : {"", AuthDetail},
     time : {Lit(0, 0), Lit(0, 5000000), Lit(2, 0)},
     measure : {"seconds", "minutes", "hours"}]

EnvelopeOf(p) ==
    Envelope(Num(Lit(p.code, 0)), p.detail, p.type, p.dev, p.time, p.measure)

WellFormedEnvelopes ==
    { EnvelopeOf(p) : p \in EnvelopeParams } \cup {apiErrJSON, invalidUserErrJSON}

\* complete bodies that are no well-formed envelope, or are one by leniency
OddBodies ==
    { << RB >>,                                           \* }
      << Comma >>,
      << LB, Comma >>,
      << LB, Str("meta"), RB >>,                          \* {"meta"}
      << Num(Lit(5, 0)) >>,                               \* 5
      << Str("x") >>,                                     \* "x"
      << Null >>,                                         \* null
      << LB, RB >>,                                       \* {}
      << LB, RB, RB >>,                                   \* {} }
      << LB, Str("meta"), Colon, Null, RB >>,
      << LB, Str("meta"), Colon, Str("x"), RB >>,
      << LB, Str("other"), Colon, LB, RB, RB >>,
      << LB, Str("meta"), Colon, LB, Str("code"), Colon, Num(Lit(1, 0)), RB, Comma,
             Str("meta"), Colon, LB, Str("code"), Colon, Num(Lit(2, 0)), RB, RB >>,
      Envelope(Str("500"), "d", "t", "f", Lit(0, 0), "seconds"),
      Envelope(Num(Lit(0, 5000000)), "d", "t", "f", Lit(0, 0), "seconds") }

\* every body cut after its first n tokens, n from 0 to its length
Prefixes(bodies) ==
    UNION { { SubSeq(b, 1, n) : n \in 0 .. Len(b) } : b \in bodies }

Bodies == Prefixes(WellFormedEnvelopes) \cup OddBodies

Headers ==
    { [k \in {} |-> << >>] }
    \cup { [k \in {"Content-Type"} |-> h] :
             h \in { << >>, << jsonContentType >>, << "foo/bar" >>,
                     << "application/json; charset=utf-8" >>,
                     << jsonContentType, "foo/bar" >>,
                     << "foo/bar", jsonContentType >> } }

\* status codes around the ends of [200, 299]
StatusCodes == {199, 200, 299, 300, 500}

Responses == [StatusCode : StatusCodes, Header : Headers, Body : Bodies]

Errors ==
    [Code : {-1, 0, 7, 500, 501, 502},
     Detail : {"", "authentication failed"},
     Type : {"", "auth_failed"},
     DeveloperFriendly : {"", "authentication failed",
                          "authentication failed due to server error"},
     Duration : {ZeroDuration}]

(***************************************************************************)
(* net/url: url.Values, Encode, ParseQuery, url.Parse of the endpoint      *)
(***************************************************************************)

\* the empty url.Values
NoValues == [k \in {} |-> << >>]

\* Values.Add: append value to the values of key
Add(q, key, value) ==
    [k \in DOMAIN q \cup {key} |->
        IF k = key
        THEN (IF key \in DOMAIN q THEN Append(q[key], value) ELSE << value >>)
        ELSE q[k]]

\* Values.Set: replace the values of key by the one value
Set(q, key, value) ==
    [k \in DOMAIN q \cup {key} |-> IF k = key THEN << value >> ELSE q[k]]

RECURSIVE AddAll(_, _, _, _)
\* q.Add(key, vv) for each vv of vs from index i on
AddAll(q, key, vs, i) ==
    IF i > Len(vs) THEN q ELSE AddAll(Add(q, key, vs[i]), key, vs, i + 1)

\* url.QueryEscape of one atom
EscapeAtom(a) ==
    CASE a = "&" -> "%26"
      [] a = "=" -> "%3D"
      [] a = "/" -> "%2F"
      [] a = "%" -> "%25"
      [] a = "+" -> "%2B"
      [] a = " " -> "+"
      [] OTHER   -> a

\* url.QueryUnescape of one atom
UnescapeAtom(a) ==
    CASE a = "%26" -> "&"
      [] a = "%3D" -> "="
      [] a = "%2F" -> "/"
      [] a = "%25" -> "%"
      [] a = "%2B" -> "+"
      [] a = "+"   -> " "
      [] OTHER     -> a

QueryEscape(str) == [i \in 1 .. Len(str) |-> EscapeAtom(str[i])]

QueryUnescape(str) == [i \in 1 .. Len(str) |-> UnescapeAtom(str[i])]

\* the keys of the model in the byte order sort.Strings gives them
KeyOrder ==
    << << "baz" >>, << "client_id" >>, << "client_secret" >>, << "foo" >>,
       << "k", "&", "client_id" >>, << "x" >> >>

RECURSIVE EncodeFrom(_, _, _, _)
\* Values.Encode from value j of key number i of KeyOrder on, appended to buf
EncodeFrom(q, i, j, buf) ==
    IF i > Len(KeyOrder) THEN buf
    ELSE IF KeyOrder[i] \notin DOMAIN q \/ j > Len(q[KeyOrder[i]])
    THEN EncodeFrom(q, i + 1, 1, buf)
    ELSE EncodeFrom(q, i, j + 1,
            (IF Len(buf) > 0 THEN buf \o << "&" >> ELSE buf)
            \o QueryEscape(KeyOrder[i]) \o << "=" >> \o QueryEscape(q[KeyOrder[i]][j]))

\* Values.Encode: "bar=baz&foo=quux", sorted by key
Encode(q) == EncodeFrom(q, 1, 1, << >>)

\* index of the first atom sep of str at or after i, Len(str) + 1 if none
RECURSIVE IndexFrom(_, _, _)
IndexFrom(str, sep, i) ==
    IF i > Len(str) \/ str[i] = sep THEN i ELSE IndexFrom(str, sep, i + 1)

RECURSIVE ParseQueryFrom(_, _, _)
\* url.ParseQuery of raw from atom i on, added to q: the pairs between
\* "&", each cut at its first "=", both sides unescaped
ParseQueryFrom(raw, i, q) ==
    IF i > Len(raw) THEN q
    ELSE LET amp  == IndexFrom(raw, "&", i)
             pair == SubSeq(raw, i, amp - 1)
             eq   == IndexFrom(pair, "=", 1)
             key  == QueryUnescape(SubSeq(pair, 1, eq - 1))
             val  == QueryUnescape(SubSeq(pair, eq + 1, Len(pair)))
         IN  ParseQueryFrom(raw, amp + 1,
                            IF Len(pair) = 0 THEN q ELSE Add(q, key, val))

\* url.ParseQuery
ParseQuery(raw) == ParseQueryFrom(raw, 1, NoValues)

\* url.Parse(fmt.Sprintf("%s/%s/", c.url.Path, endpoint)) for the endpoints of
\* the model: the path and raw query of the relative URL, or the parse error
ParseRel(path, endpoint) ==
    CASE endpoint = "foo" ->
            [err |-> NoError, Path |-> path \o "/foo/", RawQuery |-> << >>]
      [] endpoint = "user/info/gregavola" ->
            [err |-> NoError, Path |-> path \o "/user/info/gregavola/",
             RawQuery |-> << >>]
      [] endpoint = "foo?client_id=evil&x=1" ->
            [err |-> NoError, Path |-> path \o "/foo",
             RawQuery |-> << "client_id", "=", "evil", "&", "x", "=", "1", "/" >>]
      [] endpoint = "%zz" ->
            [err |-> [kind |-> "url.Error"]]

\* URL.ResolveReference for a relative path against the API root: the base
\* path "v4" has no directory part, so the reference is taken from the root
ResolveReference(base, rel) ==
    [Scheme |-> base.Scheme, Host |-> base.Host, Path |-> "/" \o rel.Path,
     RawQuery |-> rel.RawQuery]

(***************************************************************************)
(* NewClient and Client.request                                            *)
(***************************************************************************)

NoClient == [nil |-> TRUE]

NoResponse == [nil |-> TRUE]

NoBody == [nil |-> TRUE]

NoRequest == [nil |-> TRUE]

NoCall == [pc |-> "idle"]

\* NewClient creates a properly initialized instance of Client, using the
\* input client ID, client secret, and http.Client: [c, err]
NewClient(clientID, clientSecret, httpClient) ==
    [c |-> [client |-> IF httpClient = Nil THEN "http.DefaultClient" ELSE httpClient,
            url |-> [Scheme |-> "https", Host |-> "api.untappd.com", Path |-> "v4"],
            clientID |-> clientID,
            clientSecret |-> clientSecret,
            userAgent |-> "github.com/mdlayher/untappd"],
     err |-> NoError]

\* the query of the request: the endpoint's own, the caller's added key by
\* key, then the credentials; credentials(q) puts the two credentials in
RECURSIVE AddQuery(_, _, _)
AddQuery(q, query, i) ==
    IF i > Len(KeyOrder) THEN q
    ELSE AddQuery(IF KeyOrder[i] \in DOMAIN query
                  THEN AddAll(q, KeyOrder[i], query[KeyOrder[i]], 1)
                  ELSE q,
                  query, i + 1)

\* the credentials appended to the values already under their keys
Credentials_added(c, q) ==
    Add(Add(q, << "client_id" >>, c.clientID), << "client_secret" >>, c.clientSecret)

\* Add required client ID and client secret
Credentials(c, q) ==
    Set(Set(q, << "client_id" >>, c.clientID), << "client_secret" >>, c.clientSecret)

\* Client.request up to c.client.Do(req): the call either has returned
\* (nil, err) or waits for the transport with the request it dispatched.
\* http.NewRequest accepts every method and URL that occurs here.
requestStart(c, method, endpoint, query, v) ==
    LET rel == ParseRel(c.url.Path, endpoint)
        u   == ResolveReference(c.url, rel)
        q   == Credentials(c, AddQuery(ParseQuery(u.RawQuery), query, 1))
        req == [Method |-> method,
                URL    |-> [u EXCEPT !.RawQuery = Encode(q)],
                Header |-> [k \in {"Accept", "Content-Type", "User-Agent"} |->
                              IF k = "User-Agent" THEN << c.userAgent >>
                              ELSE << jsonContentType >>]]
        args == [method |-> method, endpoint |-> endpoint, query |-> query, v |-> v]
    IN  IF rel.err # NoError
        THEN [pc |-> "returned", args |-> args, req |-> NoRequest,
              res |-> NoResponse, err |-> rel.err, body |-> NoBody, dest |-> Nil]
        ELSE [pc |-> "Do", args |-> args, req |-> req,
              res |-> NoResponse, err |-> NoError, body |-> NoBody, dest |-> Nil]

\* whether JSON value val can be stored into a struct { Meta struct { Code int } }
FitsCodeOnly(val) ==
    \/ val.k = "null"
    \/ /\ val.k = "obj"
       /\ \/ Member(val, "meta").k = "null"
          \/ /\ Member(val, "meta").k = "obj"
             /\ FitsInt(Member(Member(val, "meta"), "code"))

\* json.NewDecoder(body).Decode(v) for v a *interface{} ("any") or a pointer
\* to struct { Meta struct { Code int } } ("struct"): [err, val]
DecodeInto(body, v) ==
    LET r == ParseValue(body, 1)
    IN  IF Len(body) = 0 THEN [err |-> [kind |-> "io.EOF"], val |-> Nil]
        ELSE IF r.st = "eof" THEN [err |-> [kind |-> "io.ErrUnexpectedEOF"], val |-> Nil]
        ELSE IF r.st = "syntax" THEN [err |-> [kind |-> "json.SyntaxError"], val |-> Nil]
        ELSE IF v = "struct" /\ ~FitsCodeOnly(r.val)
        THEN [err |-> [kind |-> "json.UnmarshalTypeError"], val |-> Nil]
        ELSE [err |-> NoError,
              val |-> IF v = "struct"
                      THEN [Meta |-> [Code |-> IntOf(Under(Under(r.val, "meta"), "code"))]]
                      ELSE r.val]

\* requestFinish with the body closed at the end of the successful paths only
requestFinish_closeOnSuccess(cl, res) ==
    LET chk == checkResponse(res)
        dec == DecodeInto(res.Body, cl.args.v)
    IN  IF chk.err # NoError
        THEN [cl EXCEPT !.pc = "returned", !.res = res, !.err = chk.err,
                        !.body = [closed |-> FALSE, read |-> chk.bodyRead]]
        ELSE IF cl.args.v = Nil
        THEN [cl EXCEPT !.pc = "returned", !.res = res, !.err = NoError,
                        !.body = [closed |-> TRUE, read |-> FALSE]]
        ELSE [cl EXCEPT !.pc = "returned", !.res = res, !.err = dec.err,
                        !.dest = dec.val,
                        !.body = [closed |-> TRUE, read |-> TRUE]]

\* requestFinish with the body decoded whether or not v is nil
requestFinish_alwaysDecode(cl, res) ==
    LET chk == checkResponse(res)
        dec == DecodeInto(res.Body, cl.args.v)
    IN  IF chk.err # NoError
        THEN [cl EXCEPT !.pc = "returned", !.res = res, !.err = chk.err,
                        !.body = [closed |-> TRUE, read |-> chk.bodyRead]]
        ELSE [cl EXCEPT !.pc = "returned", !.res = res, !.err = dec.err,
                        !.dest = dec.val,
                        !.body = [closed |-> TRUE, read |-> TRUE]]

\* Client.request after c.client.Do(req) returned res with a nil error:
\* defer res.Body.Close(), check the response, decode into v unless it is
\* nil, return (res, err)
requestFinish(cl, res) ==
    LET chk == checkResponse(res)
        dec == DecodeInto(res.Body, cl.args.v)
    IN  \* Check response for errors
        IF chk.err # NoError
        THEN [cl EXCEPT !.pc = "returned", !.res = res, !.err = chk.err,
                        !.body = [closed |-> TRUE, read |-> chk.bodyRead]]
        \* If no second parameter was passed, do not attempt to handle response
        ELSE IF cl.args.v = Nil
        THEN [cl EXCEPT !.pc = "returned", !.res = res, !.err = NoError,
                        !.body = [closed |-> TRUE, read |-> FALSE]]
        \* Decode response body into v, returning response
        ELSE [cl EXCEPT !.pc = "returned", !.res = res, !.err = dec.err,
                        !.dest = dec.val,
                        !.body = [closed |-> TRUE, read |-> TRUE]]

\* Client.request after c.client.Do(req) returned an error: return (nil, err)
requestFail(cl) ==
    [cl EXCEPT !.pc = "returned", !.err = [kind |-> "transport"]]

(***************************************************************************)
(* Inputs of the client specifications                                     *)
(***************************************************************************)

\* client IDs and secrets, as atoms: empty, plain, and one to be escaped
ClientIDs == { << >>, << "foo" >>, << "id", "&", "x" >> }

ClientSecrets == { << >>, << "bar" >> }

HTTPClients == {Nil, "testClient"}

Methods == {"GET", "POST"}

Endpoints == {"foo", "user/info/gregavola", "foo?client_id=evil&x=1", "%zz"}

Destinations == {Nil, "any", "struct"}

\* most values a caller gives under one key
MaxValues == 2

\* the values a caller gives: a plain one, and one that needs escaping
QueryValues == { << "bar" >>, << "a", "&", "client_id", "=", "b", " ", "c" >> }

RECURSIVE SeqsUpTo(_, _)
\* the sequences over S of length at most n
SeqsUpTo(S, n) ==
    IF n = 0 THEN { << >> }
    ELSE LET shorter == SeqsUpTo(S, n - 1)
         IN  shorter \cup { Append(t, x) : t \in shorter, x \in S }

QueryKeys == { << "foo" >>, << "client_id" >>, << "client_secret" >> }

\* every mapping from some of the keys to at most MaxValues values each,
\* and mappings of a key that needs escaping, to a value or to an empty one
Queries ==
    UNION { [keys -> SeqsUpTo(QueryValues, MaxValues)] : keys \in SUBSET QueryKeys }
    \cup { [k \in {<< "k", "&", "client_id" >>} |-> << v >>] :
             v \in QueryValues \cup { << >> } }

\* the queries of the tests, and one that names the credential keys
FewQueries ==
    { NoValues,
      [k \in {<< "foo" >>, << "baz" >>} |->
          IF k = << "foo" >> THEN << << "bar" >> >> ELSE << << "qux" >>, << "corge" >> >>],
      [k \in {<< "client_id" >>} |-> << << "evil" >>, << "evil2" >> >>] }

\* the responses a transport hands back in the client specification
FewResponses ==
    [StatusCode : {200, 299, 500},
     Header : { [k \in {"Content-Type"} |-> << jsonContentType >>],
                [k \in {"Content-Type"} |-> << "foo/bar" >>] },
     Body : { << >>, << LB >>, << RB >>, << LB, RB >>, apiErrJSON,
              Envelope(Str("500"), "d", "t", "f", Lit(0, 0), "seconds") }]

\* most c.client.Do calls in one behaviour
MaxCalls == 2

\* number of callers sharing the client
NCallers == 2

Callers == 1 .. NCallers

(***************************************************************************)
(* The client: construction, then one request after another                *)
(***************************************************************************)

FnIdle ==
    /\ fnPc = "off"
    /\ fnArgs = Nil
    /\ fnRet = Nil

MainIdle ==
    /\ client = NoClient
    /\ newCall = [pc |-> "idle"]
    /\ transportCalls = 0
    /\ call = NoCall
    /\ calls = [i \in Callers |-> NoCall]

Init == MainIdle /\ FnIdle

\* c, err := NewClient(clientID, clientSecret, httpClient)
Do_NewClient ==
    /\ client = NoClient
    /\ \E clientID \in ClientIDs, clientSecret \in ClientSecrets,
          httpClient \in HTTPClients :
          LET r == NewClient(clientID, clientSecret, httpClient)
          IN  /\ client' = r.c
              /\ newCall' = [pc |-> "returned", clientID |-> clientID,
                              clientSecret |-> clientSecret,
                              httpClient |-> httpClient, err |-> r.err,
                              transportCalls |-> transportCalls]
    /\ UNCHANGED <<transportCalls, call, calls, fnPc, fnArgs, fnRet>>

\* c.request(method, endpoint, query, v) from its entry to c.client.Do(req),
\* or to its return when the URL cannot be built
Request(methods, endpoints, queries, dests) ==
    /\ client # NoClient
    /\ call.pc \in {"idle", "returned"}
    /\ transportCalls < MaxCalls
    /\ \E method \in methods, endpoint \in endpoints, query \in queries, v \in dests :
          /\ call' = requestStart(client, method, endpoint, query, v)
          /\ transportCalls' = IF call'.pc = "Do" THEN transportCalls + 1
                               ELSE transportCalls
    /\ UNCHANGED <<client, newCall, calls, fnPc, fnArgs, fnRet>>

Do_request == Request(Methods, Endpoints, FewQueries, Destinations)

\* the transport returns a response, and request runs to its return
TransportResponds ==
    /\ call.pc = "Do"
    /\ \E res \in FewResponses : call' = requestFinish(call, res)
    /\ UNCHANGED <<client, newCall, transportCalls, calls, fnPc, fnArgs, fnRet>>

\* the transport fails, and request returns its error
TransportFails ==
    /\ call.pc = "Do"
    /\ call' = requestFail(call)
    /\ UNCHANGED <<client, newCall, transportCalls, calls, fnPc, fnArgs, fnRet>>

Next ==
    \/ Do_NewClient
    \/ Do_request
    \/ TransportResponds
    \/ TransportFails

Spec == Init /\ [][Next]_vars

\* the request built for every query mapping, without the transport
Do_requestAnyQuery ==
    Request({"GET"}, {"foo", "foo?client_id=evil&x=1"}, Queries, {Nil})

NextQuery ==
    \/ Do_NewClient
    \/ Do_requestAnyQuery

SpecQuery == Init /\ [][NextQuery]_vars

(***************************************************************************)
(* Several callers sharing one client                                      *)
(***************************************************************************)

\* Client.request up to c.client.Do(req) with the encoded query kept in the
\* URL of the client, and the next query started from it
requestShared_urlWritten(c, method, endpoint, query, v) ==
    LET rel  == ParseRel(c.url.Path, endpoint)
        kept == IF "RawQuery" \in DOMAIN c.url THEN c.url.RawQuery ELSE << >>
        q    == Credentials(c, AddQuery(ParseQuery(kept \o (IF Len(kept) > 0 /\ Len(rel.RawQuery) > 0
                                                           THEN << "&" >> ELSE << >>)
                                                   \o rel.RawQuery), query, 1))
        cl   == requestStart(c, method, endpoint, query, v)
    IN  [c  |-> [c EXCEPT !.url = [Scheme |-> c.url.Scheme, Host |-> c.url.Host,
                                   Path |-> c.url.Path, RawQuery |-> Encode(q)]],
         cl |-> [cl EXCEPT !.req.URL.RawQuery = Encode(q)]]

\* Client.request up to c.client.Do(req), on the pointer receiver c: the
\* client after it, which no statement assigns to, and the call
requestShared(c, method, endpoint, query, v) ==
    [c |-> c, cl |-> requestStart(c, method, endpoint, query, v)]

\* the arguments of the concurrent callers
SharedEndpoints == {"foo", "foo?client_id=evil&x=1"}

SharedQueries ==
    { NoValues,
      [k \in {<< "foo" >>, << "baz" >>} |->
          IF k = << "foo" >> THEN << << "bar" >> >> ELSE << << "qux" >>, << "corge" >> >>] }

SharedDestinations == {Nil, "any"}

\* the responses the transport hands the concurrent callers
SharedResponses ==
    { [StatusCode |-> 200, Header |-> [k \in {"Content-Type"} |-> << jsonContentType >>],
       Body |-> apiErrJSON],
      [StatusCode |-> 500, Header |-> [k \in {"Content-Type"} |-> << jsonContentType >>],
       Body |-> apiErrJSON],
      [StatusCode |-> 200, Header |-> [k \in {"Content-Type"} |-> << jsonContentType >>],
       Body |-> << LB >>] }

\* c, err := NewClient(clientID, clientSecret, nil), the client to be shared
Do_NewClientShared ==
    /\ client = NoClient
    /\ \E clientID \in {<< "foo" >>}, clientSecret \in {<< >>, << "bar" >>} :
          LET r == NewClient(clientID, clientSecret, Nil)
          IN  /\ client' = r.c
              /\ newCall' = [pc |-> "returned", clientID |-> clientID,
                              clientSecret |-> clientSecret,
                              httpClient |-> Nil, err |-> r.err,
                              transportCalls |-> transportCalls]
    /\ UNCHANGED <<transportCalls, call, calls, fnPc, fnArgs, fnRet>>

\* caller i runs c.request(method, endpoint, query, v) up to c.client.Do(req)
CallerRequests(i) ==
    /\ client # NoClient
    /\ calls[i].pc = "idle"
    /\ \E endpoint \in SharedEndpoints, query \in SharedQueries,
          v \in SharedDestinations :
          LET r == requestShared(client, "GET", endpoint, query, v)
          IN  /\ client' = r.c
              /\ calls' = [calls EXCEPT ![i] = r.cl]
              /\ transportCalls' = IF r.cl.pc = "Do" THEN transportCalls + 1
                                                      ELSE transportCalls
    /\ UNCHANGED <<newCall, call, fnPc, fnArgs, fnRet>>

\* the transport returns caller i its response, and its request returns
CallerGetsResponse(i) ==
    /\ calls[i].pc = "Do"
    /\ \E res \in SharedResponses :
          calls' = [calls EXCEPT ![i] = requestFinish(calls[i], res)]
    /\ UNCHANGED <<client, newCall, transportCalls, call, fnPc, fnArgs, fnRet>>

\* the transport fails caller i, and its request returns the error
CallerGetsFailure(i) ==
    /\ calls[i].pc = "Do"
    /\ calls' = [calls EXCEPT ![i] = requestFail(calls[i])]
    /\ UNCHANGED <<client, newCall, transportCalls, call, fnPc, fnArgs, fnRet>>

NextShared ==
    \/ Do_NewClientShared
    \/ \E i \in Callers : CallerRequests(i)
    \/ \E i \in Callers : CallerGetsResponse(i)
    \/ \E i \in Callers : CallerGetsFailure(i)

SpecShared == Init /\ [][NextShared]_vars

\* C11: with any number of request calls running on one client, in any
\* interleaving, the client keeps the base URL, client ID, client secret,
\* user agent and transport handle NewClient gave it; two calls with the
\* same arguments dispatch the same request, and two calls with the same
\* arguments and the same response (or both a transport failure) return
\* the same error and decode the same value.
C11_CallsIndependent ==
    /\ client # NoClient =>
          /\ client.url = [Scheme |-> "https", Host |-> "api.untappd.com", Path |-> "v4"]
          /\ client.clientID = newCall.clientID
          /\ client.clientSecret = newCall.clientSecret
          /\ client.userAgent = "github.com/mdlayher/untappd"
          /\ client.client = "http.DefaultClient"
    /\ \A i, j \in Callers :
          (calls[i].pc # "idle" /\ calls[j].pc # "idle"
           /\ calls[i].args = calls[j].args) =>
              /\ calls[i].req = calls[j].req
              /\ (calls[i].pc = "returned" /\ calls[j].pc = "returned"
                  /\ calls[i].res = calls[j].res) =>
                    /\ calls[i].err = calls[j].err
                    /\ calls[i].dest = calls[j].dest
                    /\ calls[i].body = calls[j].body
    /\ \A i \in Callers :
          calls[i].pc # "idle" =>
              /\ ParseQuery(calls[i].req.URL.RawQuery)[<< "client_id" >>]
                    = << newCall.clientID >>
              /\ \A k \in DOMAIN calls[i].args.query :
                    ParseQuery(calls[i].req.URL.RawQuery)[k] = calls[i].args.query[k]

\* caller 2 started with the arguments of caller 1 and has returned the API
\* error of a 500 response while caller 1 still waits for the transport
C11_Witness ==
    /\ calls[1].pc = "Do"
    /\ calls[2].pc = "returned"
    /\ calls[1].args = calls[2].args
    /\ DOMAIN calls[1].args.query # {}
    /\ calls[2].err.kind = "Error"
    /\ calls[1].req = calls[2].req
    /\ transportCalls = 2

(***************************************************************************)
(* Properties of the client, under Spec and SpecQuery                      *)
(***************************************************************************)

\* C1 as claimed: NewClient fails with the missing-identifier error when
\* clientID is empty, with the missing-secret error when only clientSecret
\* is empty, and succeeds only when both are non-empty; it returns before
\* any transport call.
C1_CredentialsRequired ==
    newCall.pc = "returned" =>
        /\ newCall.clientID = << >> => newCall.err.kind = "ErrNoClientID"
        /\ (newCall.clientID # << >> /\ newCall.clientSecret = << >>) =>
              newCall.err.kind = "ErrNoClientSecret"
        /\ newCall.err = NoError =>
              (newCall.clientID # << >> /\ newCall.clientSecret # << >>)
        /\ newCall.transportCalls = 0

\* the query string of the dispatched request, as the server parses it
Dispatched == ParseQuery(call.req.URL.RawQuery)

\* C2: the query string of every dispatched request has exactly one
\* client_id and one client_secret value, the client's own, whatever the
\* caller put under those keys, and under every other key of the caller
\* exactly the caller's values, in the caller's order.
C2_CredentialsOverride ==
    call.pc = "Do" =>
        /\ << "client_id" >> \in DOMAIN Dispatched
        /\ Dispatched[<< "client_id" >>] = << client.clientID >>
        /\ << "client_secret" >> \in DOMAIN Dispatched
        /\ Dispatched[<< "client_secret" >>] = << client.clientSecret >>
        /\ \A k \in DOMAIN call.args.query :
              (k \notin {<< "client_id" >>, << "client_secret" >>}
               /\ Len(call.args.query[k]) > 0) =>
                  /\ k \in DOMAIN Dispatched
                  /\ Dispatched[k] = call.args.query[k]

\* the caller gave two values under client_id and two under foo, and the
\* endpoint carried a client_id of its own
C2_Witness ==
    /\ call.pc = "Do"
    /\ call.args.endpoint = "foo?client_id=evil&x=1"
    /\ client.clientID = << "foo" >>
    /\ << "client_id" >> \in DOMAIN call.args.query
    /\ Len(call.args.query[<< "client_id" >>]) = 2
    /\ << "foo" >> \in DOMAIN call.args.query
    /\ Len(call.args.query[<< "foo" >>]) = 2
    /\ Dispatched[<< "client_id" >>] = << << "foo" >> >>
    /\ Len(Dispatched[<< "foo" >>]) = 2

Success(res) == 200 <= res.StatusCode /\ res.StatusCode <= 299

\* C5: for a JSON response with a status in [200, 299], whatever its body,
\* request never returns a validation error; with a nil destination it
\* returns no error, without reading the body; an error on this path is a
\* decode error and arises only with a destination.
C5_SuccessPath ==
    (/\ call.pc = "returned"
     /\ call.res # NoResponse
     /\ HeaderGet(call.res.Header, "Content-Type") = "application/json"
     /\ Success(call.res)) =>
        /\ call.err.kind \notin {"contentType", "Error", "transport"}
        /\ call.args.v = Nil =>
              /\ call.err = NoError
              /\ ~call.body.read
              /\ call.dest = Nil
        /\ call.err # NoError =>
              /\ call.args.v # Nil
              /\ call.body.read
              /\ call.err.kind \in {"io.EOF", "io.ErrUnexpectedEOF",
                                    "json.SyntaxError", "json.UnmarshalTypeError"}

\* a 200 response with the malformed body } and no destination: no error
C5_Witness ==
    /\ call.pc = "returned"
    /\ call.res # NoResponse
    /\ call.res.StatusCode = 200
    /\ HeaderGet(call.res.Header, "Content-Type") = "application/json"
    /\ call.res.Body = << RB >>
    /\ call.args.v = Nil
    /\ call.err = NoError

\* C6: when request has returned, the body of the response it received is
\* closed, on every path; a call whose transport failed has no response
\* and no body.
C6_BodyClosed ==
    call.pc = "returned" =>
        /\ call.res # NoResponse => (call.body # NoBody /\ call.body.closed)
        /\ call.res = NoResponse => call.body = NoBody

\* a call that returned the API error of a 500 response, its body closed
C6_Witness ==
    /\ call.pc = "returned"
    /\ call.res # NoResponse
    /\ call.res.StatusCode = 500
    /\ call.err.kind = "Error"
    /\ call.body.closed

(***************************************************************************)
(* The pure functions, each evaluated once on an input                     *)
(***************************************************************************)

InitFn ==
    /\ MainIdle
    /\ fnPc = "call"
    /\ fnArgs \in [fn : {"timeUnitToDuration"}, timeFloat : Floats, measure : Measures]
              \cup [fn : {"checkResponse"}, res : Responses]
              \cup [fn : {"Error"}, e : Errors]
    /\ fnRet = Nil

\* one evaluation of timeUnitToDuration(timeFloat, measure); the function
\* has a single result, so the error beside it is always nil
Call_timeUnitToDuration ==
    /\ fnPc = "call"
    /\ fnArgs.fn = "timeUnitToDuration"
    /\ fnPc' = "done"
    /\ fnRet' = [d   |-> timeUnitToDuration(fnArgs.timeFloat, fnArgs.measure),
                 err |-> Nil]
    /\ UNCHANGED <<client, newCall, transportCalls, call, calls, fnArgs>>

\* one evaluation of checkResponse(res)
Call_checkResponse ==
    /\ fnPc = "call"
    /\ fnArgs.fn = "checkResponse"
    /\ fnPc' = "done"
    /\ fnRet' = checkResponse(fnArgs.res)
    /\ UNCHANGED <<client, newCall, transportCalls, call, calls, fnArgs>>

\* one evaluation of e.Error()
Call_Error ==
    /\ fnPc = "call"
    /\ fnArgs.fn = "Error"
    /\ fnPc' = "done"
    /\ fnRet' = Error_Error(fnArgs.e)
    /\ UNCHANGED <<client, newCall, transportCalls, call, calls, fnArgs>>

NextFn ==
    \/ Call_timeUnitToDuration
    \/ Call_checkResponse
    \/ Call_Error

SpecFn == InitFn /\ [][NextFn]_vars

(***************************************************************************)
(* Properties of the pure functions, under SpecFn                          *)
(***************************************************************************)

FnDone(name) == fnPc = "done" /\ fnArgs.fn = name

NonSuccess(res) == ~(200 <= res.StatusCode /\ res.StatusCode <= 299)

IsJSON(res) == HeaderGet(res.Header, "Content-Type") = "application/json"

\* C3: whenever the Content-Type of the response is not exactly
\* application/json, whatever the status code and the body, checkResponse
\* returns the content-type mismatch error naming application/json and the
\* actual type, and has not read the body.
C3_ContentTypeFirst ==
    (FnDone("checkResponse") /\ ~IsJSON(fnArgs.res)) =>
        /\ fnRet.err # NoError
        /\ fnRet.err.kind = "contentType"
        /\ fnRet.err.expected = "application/json"
        /\ fnRet.err.actual = HeaderGet(fnArgs.res.Header, "Content-Type")
        /\ fnRet.err.msg = "expected application/json content type, but received "
                           \o HeaderGet(fnArgs.res.Header, "Content-Type")
        /\ ~fnRet.bodyRead

\* a status 200 response declared foo/bar, with a body, is refused
C3_Witness ==
    /\ FnDone("checkResponse")
    /\ fnArgs.res.StatusCode = 200
    /\ fnArgs.res.Header = [k \in {"Content-Type"} |-> << "foo/bar" >>]
    /\ fnArgs.res.Body = apiErrJSON
    /\ fnRet.err # NoError
    /\ fnRet.err.msg = "expected application/json content type, but received foo/bar"

\* a body that is a well-formed envelope cut short, but not to nothing
Truncated(body) ==
    /\ Len(body) > 0
    /\ body \in Prefixes(WellFormedEnvelopes) \ WellFormedEnvelopes

\* the error of a JSON non-2xx response follows the body: io.EOF for an
\* empty one, io.ErrUnexpectedEOF for a truncated one, the *Error carrying
\* the envelope's fields for a well-formed one
C4_ByBody(res, err) ==
    /\ Len(res.Body) = 0 => err.kind = "io.EOF"
    /\ Truncated(res.Body) => err.kind = "io.ErrUnexpectedEOF"
    /\ \A p \in EnvelopeParams :
          res.Body = EnvelopeOf(p) =>
              /\ err.kind = "Error"
              /\ err.Code = p.code
              /\ err.Type = p.type
              /\ err.Detail = p.detail
              /\ err.DeveloperFriendly = p.dev

C7_Rendering ==
    FnDone("Error") =>
        /\ fnArgs.e.DeveloperFriendly # "" =>
              fnRet = FormatD(fnArgs.e.Code) \o " [" \o fnArgs.e.Type \o "]: "
                      \o fnArgs.e.DeveloperFriendly
        /\ fnArgs.e.DeveloperFriendly = "" =>
              fnRet = FormatD(fnArgs.e.Code) \o " [" \o fnArgs.e.Type \o "]: "
                      \o fnArgs.e.Detail
        /\ (/\ fnArgs.e.Code = 500 /\ fnArgs.e.Type = "auth_failed"
            /\ fnArgs.e.Detail = "authentication failed"
            /\ fnArgs.e.DeveloperFriendly = "") =>
              fnRet = "500 [auth_failed]: authentication failed"
        /\ (/\ fnArgs.e.Code = 502 /\ fnArgs.e.Type = "auth_failed"
            /\ fnArgs.e.Detail = "authentication failed"
            /\ fnArgs.e.DeveloperFriendly = "authentication failed due to server error") =>
              fnRet = "502 [auth_failed]: authentication failed due to server error"

\* both strings present and different: the developer friendly one is shown
C7_Witness ==
    /\ FnDone("Error")
    /\ fnArgs.e.Code = 502
    /\ fnArgs.e.Detail = "authentication failed"
    /\ fnArgs.e.DeveloperFriendly = "authentication failed due to server error"
    /\ fnRet = "502 [auth_failed]: authentication failed due to server error"

\* C8 as claimed: a response-time pair whose unit is none of milliseconds,
\* seconds, minutes fails to decode with the invalid-time-unit error, and
\* the duration stays zero.
C8_InvalidUnitFails ==
    (FnDone("timeUnitToDuration") /\ fnArgs.measure \notin {"milliseconds", "seconds", "minutes"}) =>
        /\ fnRet.err = "errInvalidTimeUnit"
        /\ fnRet.d = ZeroDuration

Exact(x, measure) ==
    CASE measure = "milliseconds" ->
            [d |-> [neg |-> FALSE,
                    m  |-> x.ip \div 60000,
                    s  |-> (x.ip % 60000) \div 1000,
                    ns |-> (x.ip % 1000) * Million + (x.fr \div 10)],
             rest |-> x.fr % 10]
      [] measure = "seconds" ->
            [d |-> [neg |-> FALSE,
                    m  |-> x.ip \div 60,
                    s  |-> x.ip % 60,
                    ns |-> x.fr * 100],
             rest |-> 0]
      [] measure = "minutes" ->
            [d |-> [neg |-> FALSE,
                    m  |-> x.ip,
                    s  |-> (x.fr * 6) \div Million,
                    ns |-> ((x.fr * 6) % Million) * 1000],
             rest |-> 0]

\* d with the sign of x, zero being unsigned
Signed(d, x) == IF d = ZeroDuration THEN d ELSE [d EXCEPT !.neg = x.neg]

\* the examples of the claim: magnitude and measure to duration
C10_Examples(x, measure, d) ==
    /\ (x.ip = 0 /\ x.fr = 500000 /\ measure = "milliseconds") =>
          d = [neg |-> x.neg, m |-> 0, s |-> 0, ns |-> 50000]
    /\ (x.ip = 500 /\ x.fr = 0 /\ measure = "milliseconds") =>
          d = [neg |-> x.neg, m |-> 0, s |-> 0, ns |-> 500 * Million]
    /\ (x.ip = 0 /\ x.fr = 5000000 /\ measure = "seconds") =>
          d = [neg |-> x.neg, m |-> 0, s |-> 0, ns |-> 500 * Million]
    /\ (x.ip = 0 /\ x.fr = 5000000 /\ measure = "minutes") =>
          d = [neg |-> x.neg, m |-> 0, s |-> 30, ns |-> 0]
    /\ (x.ip = 1 /\ x.fr = 0 /\ measure = "minutes") =>
          d = [neg |-> x.neg, m |-> 1, s |-> 0, ns |-> 0]
    /\ (x.ip = 2 /\ x.fr = 0 /\ measure = "minutes") =>
          d = [neg |-> x.neg, m |-> 2, s |-> 0, ns |-> 0]
    /\ (x.ip = 0 /\ x.fr = 0) => d = ZeroDuration

\* C10 as claimed: for a recognized unit the duration is the magnitude
\* times the unit, fractional magnitudes included (a product that is no
\* whole number of nanoseconds may be cut or rounded to one).
C10_ExactProduct ==
    (FnDone("timeUnitToDuration") /\ fnArgs.measure \in {"milliseconds", "seconds", "minutes"}) =>
        LET e == Exact(fnArgs.timeFloat, fnArgs.measure)
        IN  /\ \/ fnRet.d = Signed(e.d, fnArgs.timeFloat)
               \/ /\ e.rest # 0
                  /\ fnRet.d = Signed([e.d EXCEPT !.ns = @ + 1], fnArgs.timeFloat)
            /\ C10_Examples(fnArgs.timeFloat, fnArgs.measure, fnRet.d)

\* C10 as amended: for a recognized unit and a magnitude of at most six
\* decimal places whose product with the unit fits int64 nanoseconds, the
\* duration is the magnitude times the unit; the examples hold, and a
\* magnitude of 0 gives the zero duration.
C10_ProductOfSixPlaces ==
    (FnDone("timeUnitToDuration") /\ fnArgs.measure \in {"milliseconds", "seconds", "minutes"}) =>
        LET e == Exact(fnArgs.timeFloat, fnArgs.measure)
        IN  /\ (fnArgs.timeFloat.fr % 10 = 0 /\ ~DurLess(MaxDuration, e.d)) =>
                  fnRet.d = Signed(e.d, fnArgs.timeFloat)
            /\ C10_Examples(fnArgs.timeFloat, fnArgs.measure, fnRet.d)

\* half a minute is thirty seconds exactly
C10_Witness ==
    /\ FnDone("timeUnitToDuration")
    /\ fnArgs.timeFloat = Lit(0, 5000000)
    /\ fnArgs.measure = "minutes"
    /\ fnRet.d = [neg |-> FALSE, m |-> 0, s |-> 30, ns |-> 0]

=============================================================================
